---------------------------- MODULE Spec2Model ----------------------------
(***************************************************************************)
(* Model of package licverifier (src/licverifier/verifier.go): loading an  *)
(* ECDSA public key from a PEM blob, building the one-key ES384 key set,   *)
(* verifying a signed license token and extracting its claims into a       *)
(* LicenseInfo, and matching the deployment id.                            *)
(*                                                                         *)
(* The libraries the package calls (encoding/pem, crypto/x509, jwx's jwk   *)
(* and jwt) are modelled by their contract on abstract inputs: a blob says *)
(* what each parser makes of it, a license says who signed it, with which  *)
(* algorithm, and which claims it carries.                                 *)
(***************************************************************************)
EXTENDS Integers, Sequences, FiniteSets, TLC

(***************************************************************************)
(* Bounds of the model.                                                    *)
(***************************************************************************)
\* Times are seconds 1..MaxTime; 0 is Go's zero time.Time (claim absent).
MaxTime == 4
\* Largest acceptable skew a caller passes with jwt.WithAcceptableSkew.
MaxSkew == 1
\* Number of goroutines that call Verify on one shared LicenseVerifier.
NumCallers == 2

(***************************************************************************)
(* license key JSON field names                                            *)
(***************************************************************************)
accountID == "aid"
deploymentID == "did"
organization == "org"
capacity == "cap"
plan == "plan"

ClaimNames == {accountID, deploymentID, organization, capacity, plan}

(***************************************************************************)
(* Values of the untyped claims map (token.AsMap): a JSON value decoded    *)
(* into interface{} is absent, a string, or a float64.  A float64 is kept  *)
(* exactly, as a count of halves: Num(85) is 42.5, Num(-3) is -1.5.        *)
(***************************************************************************)
Absent == [t |-> "absent", s |-> "", h |-> 0]
Str(s) == [t |-> "string", s |-> s, h |-> 0]
Num(h) == [t |-> "float64", s |-> "", h |-> h]
Whole(n) == Num(2 * n)

\* v.(string) and v.(float64): the "ok" of a Go type assertion.
IsString(v) == v.t = "string"
IsFloat64(v) == v.t = "float64"

\* int64(f) for a float64 f given in halves: Go truncates toward zero.
Int64(h) == IF h >= 0 THEN h \div 2 ELSE -((-h) \div 2)

(***************************************************************************)
(* Errors.  Nil is Go's nil error; an error is its message and, for the    *)
(* wrapping fmt.Errorf calls, the message of the error it wraps.           *)
(***************************************************************************)
Nil == [msg |-> "nil", cause |-> ""]
Err(m) == [msg |-> m, cause |-> ""]
Wrap(m, e) == [msg |-> m, cause |-> e.msg]

ErrNotPEM == Err("key must be a PEM encoded PKCS1 or PKCS8 key")
ErrX509Cert == Err("x509: malformed certificate")
ErrNotECDSA == Err("key is not a valid RSA public key")
ErrJWK == Err("jwk: failed to create key")
ErrAccountID == Err("Invalid accountId in claims")
ErrOrganization == Err("Invalid organization in claims")
ErrCapacity == Err("Invalid storage capacity in claims")
ErrPlan == Err("Invalid plan in claims")
ErrDeployment == Err("Invalid license - deployment ID doesn't match")
MsgParseKey == "Failed to parse public key"
MsgVerify == "failed to verify license"

(***************************************************************************)
(* Keys and blobs.  A parsed key has an algorithm family, an identity, and *)
(* a curve; NoKey is a parse that failed.                                  *)
(***************************************************************************)
NoKey == [family |-> "none", id |-> "", curve |-> ""]
ECKey(id, curve) == [family |-> "ecdsa", id |-> id, curve |-> curve]
RSAKey(id) == [family |-> "rsa", id |-> id, curve |-> ""]

\* What pem.Decode, x509.ParsePKIXPublicKey and x509.ParseCertificate make
\* of a blob.  A DER payload is a PKIX key or a certificate, never both.
Blob(name, pem, pkix, cert) == [name |-> name, pem |-> pem, pkix |-> pkix, cert |-> cert]

ProdPEM == Blob("prod", TRUE, ECKey("prod", "P-384"), NoKey)
DevPEM == Blob("dev", TRUE, ECKey("dev", "P-384"), NoKey)

Blobs ==
  { ProdPEM, DevPEM,
    Blob("not-a-key", FALSE, NoKey, NoKey),
    Blob("pem-garbage", TRUE, NoKey, NoKey),
    Blob("ec-cert", TRUE, NoKey, ECKey("other", "P-384")),
    Blob("ec-p256", TRUE, ECKey("p256", "P-256"), NoKey),
    Blob("ec-p224", TRUE, ECKey("p224", "P-224"), NoKey),
    Blob("rsa-pkix", TRUE, RSAKey("rsa"), NoKey),
    Blob("rsa-cert", TRUE, NoKey, RSAKey("rsa")),
    Blob("dsa-cert", TRUE, NoKey, [family |-> "unknown", id |-> "", curve |-> ""]) }


\* A variant that returns whatever key was parsed, of any family.
parseAnyPublicKeyFromPEM(key) ==
  IF ~key.pem
    THEN [key |-> NoKey, err |-> ErrNotPEM]
    ELSE LET parsedKey == IF key.pkix # NoKey THEN key.pkix ELSE key.cert
         IN  IF key.pkix = NoKey /\ key.cert = NoKey
               THEN [key |-> NoKey, err |-> ErrX509Cert]
               ELSE [key |-> parsedKey, err |-> Nil]

(***************************************************************************)
(* parse PEM encoded PKCS1 or PKCS8 public key                             *)
(***************************************************************************)
parseECPublicKeyFromPEM(key) ==
  IF ~key.pem
    THEN [key |-> NoKey, err |-> ErrNotPEM]
    ELSE LET parsedKey == IF key.pkix # NoKey THEN key.pkix ELSE key.cert
         IN  IF key.pkix = NoKey /\ key.cert = NoKey
               THEN [key |-> NoKey, err |-> ErrX509Cert]
               ELSE IF parsedKey.family # "ecdsa"
                      THEN [key |-> NoKey, err |-> ErrNotECDSA]
                      ELSE [key |-> parsedKey, err |-> Nil]

(***************************************************************************)
(* The key set of a verifier: a sequence of JWKs, each the identity of a   *)
(* public key and the algorithm bound to it ("" when none is set).         *)
(***************************************************************************)
ES384 == "ES384"
JWK(id, alg) == [id |-> id, alg |-> alg]
NilVerifier == [isNil |-> TRUE, keySet |-> << >>]

\* jwk.New(pbKey): jwx has no JWK curve name for P-224.
JwkCurves == {"P-256", "P-384", "P-521"}
jwkNew(pbKey) ==
  IF pbKey.curve \in JwkCurves
    THEN [key |-> JWK(pbKey.id, ""), err |-> Nil]
    ELSE [key |-> JWK("", ""), err |-> ErrJWK]

\* key.Set(jwk.AlgorithmKey, jwa.ES384); keyset := jwk.NewSet(); keyset.Add(key)
BuildKeySet(key) == << [key EXCEPT !.alg = ES384] >>

\* NewLicenseVerifier returns an initialized license verifier with the given
\* ECDSA public key in PEM format.
NewLicenseVerifier(pemBytes) ==
  LET p == parseECPublicKeyFromPEM(pemBytes)
      k == jwkNew(p.key)
  IN  IF p.err # Nil
        THEN [lv |-> NilVerifier, err |-> Wrap(MsgParseKey, p.err)]
        ELSE IF k.err # Nil
               THEN [lv |-> NilVerifier, err |-> k.err]
               ELSE [lv |-> [isNil |-> FALSE, keySet |-> BuildKeySet(k.key)],
                     err |-> Nil]

(***************************************************************************)
(* jwt.ParseOption values.  Each option has an identity and one value; the *)
(* value lives in the field of its type.                                   *)
(***************************************************************************)
Option(ident, ks, b, n) == [ident |-> ident, ks |-> ks, b |-> b, n |-> n]
WithKeySet(ks) == Option("WithKeySet", ks, FALSE, 0)
UseDefaultKey(b) == Option("UseDefaultKey", << >>, b, 0)
WithValidate(b) == Option("WithValidate", << >>, b, 0)
WithClock(t) == Option("WithClock", << >>, FALSE, t)
WithAcceptableSkew(d) == Option("WithAcceptableSkew", << >>, FALSE, d)

\* jwt reads its options in order, so for one identity the last one given
\* decides; dflt stands when the identity is not among them.
LastOption(options, ident, dflt) ==
  LET at == {i \in DOMAIN options : options[i].ident = ident}
  IN  IF at = {} THEN dflt
      ELSE options[CHOOSE i \in at : \A j \in at : j <= i]

(***************************************************************************)
(* A license string: whether it is a compact three-segment JWS at all, the *)
(* algorithm its header declares, the key whose private half signed it,    *)
(* whether its signature bytes were altered afterwards, and its payload:   *)
(* subject, expiration, not-before (0 when absent) and the custom claims.  *)
(* Licenses carry no key id, which is why Verify asks for the default key. *)
(***************************************************************************)
License(wellFormed, alg, signer, tampered, sub, exp, nbf, claims) ==
  [wellFormed |-> wellFormed, alg |-> alg, signer |-> signer,
   tampered |-> tampered, sub |-> sub, exp |-> exp, nbf |-> nbf,
   claims |-> claims]

NilToken == [isNil |-> TRUE, sub |-> "", exp |-> 0, claims |-> [c \in ClaimNames |-> Absent]]

\* The signature of license verifies under JWK key: made by the private half
\* of that key, with the algorithm bound to the key, and not altered since.
SignatureVerifies(license, key) ==
  /\ key.alg # ""
  /\ license.alg = key.alg
  /\ license.signer = key.id
  /\ ~license.tampered

\* jwt.Validate: exp and nbf against the clock, each only when present.
\* a token is valid from its not-before second on.
TimeError(license, clock, skew) ==
  IF license.exp # 0 /\ ~(clock < license.exp + skew)
    THEN Err("exp not satisfied")
    ELSE IF license.nbf # 0 /\ clock < license.nbf - skew
           THEN Err("nbf not satisfied")
           ELSE Nil

\* jwt.ParseString(license, options...)
ParseString(license, options, now) ==
  LET keySet == LastOption(options, "WithKeySet", Option("", << >>, FALSE, 0))
      useDefault == LastOption(options, "UseDefaultKey", UseDefaultKey(FALSE)).b
      validate == LastOption(options, "WithValidate", WithValidate(FALSE)).b
      clock == LastOption(options, "WithClock", WithClock(now)).n
      skew == LastOption(options, "WithAcceptableSkew", WithAcceptableSkew(0)).n
      fail(e) == [token |-> NilToken, err |-> e]
      timeErr == TimeError(license, clock, skew)
  IN  IF ~license.wellFormed
        THEN fail(Err("invalid compact serialization format"))
      ELSE IF keySet.ident = "WithKeySet" /\ ~(useDefault /\ Len(keySet.ks) = 1)
        THEN fail(Err("failed to find key"))
      ELSE IF keySet.ident = "WithKeySet" /\ ~SignatureVerifies(license, keySet.ks[1])
        THEN fail(Err("failed to verify jws signature"))
      ELSE IF validate /\ timeErr # Nil
        THEN fail(timeErr)
      ELSE [token |-> [isNil |-> FALSE, sub |-> license.sub, exp |-> license.exp,
                       claims |-> license.claims],
            err |-> Nil]

(***************************************************************************)
(* LicenseInfo holds customer metadata present in the license key.         *)
(***************************************************************************)
ZeroInfo ==
  [Email |-> "", Organization |-> "", AccountID |-> 0, DeploymentID |-> "",
   StorageCapacity |-> 0, Plan |-> "", ExpiresAt |-> 0]

\* A variant that formats a deployment id that is not a string.
DeploymentIDOfFormatted(claims) ==
  IF IsString(claims[deploymentID]) THEN claims[deploymentID].s
  ELSE IF IsFloat64(claims[deploymentID]) THEN "123" ELSE ""

\* depUUID, _ := claims[deploymentID].(string)
DeploymentIDOf(claims) ==
  IF IsString(claims[deploymentID]) THEN claims[deploymentID].s ELSE ""

\* A variant that forgets the sign check on the account id.
AccountIDInvalidNoSign(claims) == ~IsFloat64(claims[accountID])

\* accID, ok := claims[accountID].(float64); if !ok || ok && accID < 0
AccountIDInvalid(claims) ==
  ~IsFloat64(claims[accountID]) \/ claims[accountID].h < 0

\* A variant that returns what it has extracted so far along with the error.
toLicenseInfoPartial(token) ==
  LET claims == token.claims
      sofar == [ZeroInfo EXCEPT !.Email = token.sub]
  IN  IF AccountIDInvalid(claims) THEN [info |-> sofar, err |-> ErrAccountID]
      ELSE IF ~IsString(claims[organization]) THEN [info |-> sofar, err |-> ErrOrganization]
      ELSE IF ~IsFloat64(claims[capacity])
        THEN [info |-> [sofar EXCEPT !.Organization = claims[organization].s],
              err |-> ErrCapacity]
      ELSE IF ~IsString(claims[plan])
        THEN [info |-> [sofar EXCEPT !.Organization = claims[organization].s,
                                     !.StorageCapacity = Int64(claims[capacity].h)],
              err |-> ErrPlan]
      ELSE [info |-> [Email |-> token.sub,
                      Organization |-> claims[organization].s,
                      AccountID |-> Int64(claims[accountID].h),
                      DeploymentID |-> DeploymentIDOf(claims),
                      StorageCapacity |-> Int64(claims[capacity].h),
                      Plan |-> claims[plan].s,
                      ExpiresAt |-> token.exp],
            err |-> Nil]

\* toLicenseInfo extracts LicenseInfo from claims. It returns an error if any
\* of the claim values are invalid.
toLicenseInfo(token) ==
  LET claims == token.claims
      fail(e) == [info |-> ZeroInfo, err |-> e]
  IN  IF AccountIDInvalid(claims) THEN fail(ErrAccountID)
      ELSE IF ~IsString(claims[organization]) THEN fail(ErrOrganization)
      ELSE IF ~IsFloat64(claims[capacity]) THEN fail(ErrCapacity)
      ELSE IF ~IsString(claims[plan]) THEN fail(ErrPlan)
      ELSE [info |-> [Email |-> token.sub,
                      Organization |-> claims[organization].s,
                      AccountID |-> Int64(claims[accountID].h),
                      DeploymentID |-> DeploymentIDOf(claims),
                      StorageCapacity |-> Int64(claims[capacity].h),
                      Plan |-> claims[plan].s,
                      ExpiresAt |-> token.exp],
            err |-> Nil]

\* A variant that puts the caller's options after the verifier's own, so that
\* the caller's decide.
VerifyOptionsCallerLast(lv, options) ==
  << WithKeySet(lv.keySet), UseDefaultKey(TRUE), WithValidate(TRUE) >> \o options

\* A variant that forgets to ask for validation.
VerifyOptionsNoValidate(lv, options) ==
  options \o << WithKeySet(lv.keySet), UseDefaultKey(TRUE) >>

\* options = append(options, jwt.WithKeySet(lv.keySet), jwt.UseDefaultKey(true),
\*                  jwt.WithValidate(true))
VerifyOptions(lv, options) ==
  options \o << WithKeySet(lv.keySet), UseDefaultKey(TRUE), WithValidate(TRUE) >>

\* Verify verifies the license key and validates the claims present in it.
Verify(lv, license, options, now) ==
  LET p == ParseString(license, VerifyOptions(lv, options), now)
  IN  IF p.err # Nil
        THEN [info |-> ZeroInfo, err |-> Wrap(MsgVerify, p.err)]
        ELSE toLicenseInfo(p.token)

\* devMode := env.Get("MINIO_CI_CD", "") != ""; the embedded key it selects.
EmbeddedKey(devMode) == IF devMode THEN DevPEM ELSE ProdPEM

\* A variant that compares deployment ids without regard to letter case.
FoldCase(id) == IF id = "DEP-123" THEN "dep-123" ELSE id
DeploymentMismatchFolded(licInfo, depID) ==
  FoldCase(licInfo.DeploymentID) # FoldCase(depID)

\* A variant that lets a license without a deployment id match any cluster.
DeploymentMismatchLenient(licInfo, depID) ==
  licInfo.DeploymentID # "" /\ licInfo.DeploymentID # depID

\* licInfo.DeploymentID != depID
DeploymentMismatch(licInfo, depID) == licInfo.DeploymentID # depID

\* VerifyClusterLicense - verifies if the given license string is valid for
\* the given cluster (deployment id)
VerifyClusterLicense(lic, depID, options, devMode, now) ==
  LET n == NewLicenseVerifier(EmbeddedKey(devMode))
      v == Verify(n.lv, lic, options, now)
  IN  IF n.err # Nil THEN n.err
      ELSE IF v.err # Nil THEN v.err
      ELSE IF DeploymentMismatch(v.info, depID) THEN ErrDeployment
      ELSE Nil

(***************************************************************************)
(* Inputs.  The claim sets vary every custom claim over absent, wrong type *)
(* and right type; the envelopes vary form, algorithm, signer and          *)
(* tampering; the times vary exp and nbf against the clock.                *)
(***************************************************************************)
Claims(aid, org, cap, pl, did) ==
  [c \in ClaimNames |->
     CASE c = accountID -> aid
       [] c = organization -> org
       [] c = capacity -> cap
       [] c = plan -> pl
       [] c = deploymentID -> did]

AidValues == {Absent, Str("42"), Num(-1), Whole(0), Whole(42), Num(85)}
OrgValues == {Absent, Whole(7), Str("Acme")}
CapValues == {Absent, Str("100"), Whole(100), Num(-3)}
PlanValues == {Absent, Whole(1), Str("enterprise")}
DidValues == {Absent, Whole(123), Str("dep-123")}

AllClaims ==
  {Claims(a, o, c, pl, d) : a \in AidValues, o \in OrgValues, c \in CapValues,
                            pl \in PlanValues, d \in DidValues}

AcmeClaims == Claims(Whole(42), Str("Acme"), Whole(100), Str("enterprise"), Str("dep-123"))
SomeClaims ==
  { AcmeClaims,
    [AcmeClaims EXCEPT ![deploymentID] = Absent],
    [AcmeClaims EXCEPT ![deploymentID] = Whole(123)],
    [AcmeClaims EXCEPT ![accountID] = Str("42")],
    [AcmeClaims EXCEPT ![plan] = Absent],
    [AcmeClaims EXCEPT ![accountID] = Num(85), ![capacity] = Num(-3)] }

Times == 1 .. MaxTime
Signers == {"prod", "dev", "other"}

\* Correctly signed by the production key, expiring at MaxTime: every claim set.
ClaimLicenses ==
  {License(TRUE, ES384, "prod", FALSE, "ops@acme.io", MaxTime, 0, c) : c \in AllClaims}

\* Every envelope, over a few claim sets; a string that is no JWS has no parts.
EnvelopeLicenses ==
  {License(TRUE, a, k, t, "", MaxTime, 0, c) :
      a \in {ES384, "ES256"}, k \in Signers, t \in BOOLEAN, c \in SomeClaims}
  \cup {License(FALSE, "", "", FALSE, "", 0, 0, [c \in ClaimNames |-> Absent])}

\* Correctly signed by the production key, every exp and nbf.
TimedLicenses ==
  {License(TRUE, ES384, "prod", FALSE, "ops@acme.io", e, n, AcmeClaims) :
      e \in 0 .. MaxTime, n \in 0 .. MaxTime}

\* What a caller passes as options... to Verify and VerifyClusterLicense.
KeySetOptions ==
  { << >>, << WithKeySet(<< JWK("other", ES384) >>) >>, << UseDefaultKey(FALSE) >> }
TimeOptions ==
  {<< >>, << WithValidate(FALSE) >>, << WithClock(1), WithAcceptableSkew(MaxSkew) >>}
  \cup {<< WithClock(t) >> : t \in Times}
  \cup {<< WithAcceptableSkew(d) >> : d \in 1 .. MaxSkew}

Input(license, options) == [license |-> license, options |-> options]
Inputs ==
  {Input(l, << >>) : l \in ClaimLicenses}
  \cup {Input(l, o) : l \in EnvelopeLicenses, o \in KeySetOptions}
  \cup {Input(l, o) : l \in TimedLicenses, o \in TimeOptions}

DepIDs == {"", "dep-123", "DEP-123", "dep-999"}

\* The inputs of the goroutines that share one verifier.
SharedBlobs == {ProdPEM, Blob("not-a-key", FALSE, NoKey, NoKey)}
SharedInputs ==
  {Input(License(TRUE, ES384, k, FALSE, "ops@acme.io", 2, 0, c), o) :
      k \in {"prod", "dev"},
      c \in {AcmeClaims, [AcmeClaims EXCEPT ![plan] = Absent]},
      o \in {<< >>, << WithKeySet(<< JWK("dev", ES384) >>) >>}}

(***************************************************************************)
(* State.  lv is the LicenseVerifier the callers share (nil until          *)
(* NewLicenseVerifier has returned one).  call[p] is the call goroutine p  *)
(* is in: its arguments, the stage it is at, its locals and its results.   *)
(***************************************************************************)
VARIABLES lv, call
vars == << lv, call >>

NoBlob == Blob("", FALSE, NoKey, NoKey)
NoLicense == License(FALSE, "", "", FALSE, "", 0, 0, [c \in ClaimNames |-> Absent])

Idle ==
  [op |-> "", pc |-> "idle", pemBytes |-> NoBlob, license |-> NoLicense,
   options |-> << >>, depID |-> "", now |-> 0, pbKey |-> NoKey,
   lv |-> NilVerifier, token |-> NilToken, info |-> ZeroInfo, err |-> Nil,
   trace |-> << >>]

\* The stages of a call, in the order the code runs them.
Stages == << "load", "keyset", "parse", "extract", "match" >>

Init ==
  /\ lv = NilVerifier
  /\ call = [p \in {1} |-> Idle]

InitShared ==
  /\ lv = NilVerifier
  /\ call = [p \in 1 .. NumCallers |-> Idle]

\* A goroutine calls NewLicenseVerifier(pemBytes).
CallNewLicenseVerifier(p, blobs) ==
  /\ call[p].pc = "idle"
  /\ lv.isNil
  /\ \A q \in DOMAIN call : call[q].op # "NewLicenseVerifier"
  /\ \E b \in blobs :
       call' = [call EXCEPT ![p] =
                  [Idle EXCEPT !.op = "NewLicenseVerifier", !.pc = "load",
                               !.pemBytes = b]]
  /\ UNCHANGED lv

\* A goroutine calls lv.Verify(license, options...) on the shared verifier.
CallVerify(p, inputs) ==
  /\ call[p].pc = "idle"
  /\ ~lv.isNil
  /\ \E i \in inputs :
       call' = [call EXCEPT ![p] =
                  [Idle EXCEPT !.op = "Verify", !.pc = "parse",
                               !.license = i.license, !.options = i.options]]
  /\ UNCHANGED lv

\* A goroutine calls VerifyClusterLicense(lic, depID, options...); the
\* environment picks the embedded key.
CallVerifyClusterLicense(p, inputs) ==
  /\ call[p].pc = "idle"
  /\ \E i \in inputs, d \in DepIDs, devMode \in BOOLEAN :
       call' = [call EXCEPT ![p] =
                  [Idle EXCEPT !.op = "VerifyClusterLicense", !.pc = "load",
                               !.pemBytes = EmbeddedKey(devMode),
                               !.license = i.license, !.options = i.options,
                               !.depID = d]]
  /\ UNCHANGED lv

\* pbKey, err := parseECPublicKeyFromPEM(pemBytes)
LoadKey(p) ==
  /\ call[p].pc = "load"
  /\ LET r == parseECPublicKeyFromPEM(call[p].pemBytes)
     IN  call' = [call EXCEPT ![p] =
                    [@ EXCEPT !.trace = Append(@, "load"),
                              !.pbKey = r.key,
                              !.err = IF r.err # Nil THEN Wrap(MsgParseKey, r.err) ELSE Nil,
                              !.pc = IF r.err # Nil THEN "done" ELSE "keyset"]]
  /\ UNCHANGED lv

\* key, err := jwk.New(pbKey) ... return &LicenseVerifier{keySet: keyset}, nil
MakeKeySet(p) ==
  /\ call[p].pc = "keyset"
  /\ LET k == jwkNew(call[p].pbKey)
     IN  call' = [call EXCEPT ![p] =
                    [@ EXCEPT !.trace = Append(@, "keyset"),
                              !.lv = IF k.err # Nil THEN NilVerifier
                                     ELSE [isNil |-> FALSE, keySet |-> BuildKeySet(k.key)],
                              !.err = k.err,
                              !.pc = IF k.err # Nil \/ call[p].op = "NewLicenseVerifier"
                                       THEN "done" ELSE "parse"]]
  /\ UNCHANGED lv

\* The verifier a call's Verify stage runs on: the shared one for a Verify
\* call, the one it has just built for VerifyClusterLicense.
Receiver(p) == IF call[p].op = "Verify" THEN lv ELSE call[p].lv

\* A variant in which Verify adds the keys of the caller's options to the
\* verifier's own set.
KeySetAfterVerifyAdding(receiver, options) ==
  receiver.keySet \o LastOption(options, "WithKeySet", WithKeySet(<< >>)).ks

\* The key set a Verify call leaves on its receiver: the one it found.
KeySetAfterVerify(receiver, options) == receiver.keySet

\* token, err := jwt.ParseString(license, options...), at wall-clock time now
ParseAndVerify(p) ==
  /\ call[p].pc = "parse"
  /\ \E now \in Times :
       LET r == ParseString(call[p].license, VerifyOptions(Receiver(p), call[p].options), now)
       IN  call' = [call EXCEPT ![p] =
                      [@ EXCEPT !.trace = Append(@, "parse"),
                                !.now = now,
                                !.token = r.token,
                                !.err = IF r.err # Nil THEN Wrap(MsgVerify, r.err) ELSE Nil,
                                !.pc = IF r.err # Nil THEN "done" ELSE "extract"]]
  /\ lv' = IF call[p].op = "Verify"
             THEN [lv EXCEPT !.keySet = KeySetAfterVerify(lv, call[p].options)]
             ELSE lv

\* return toLicenseInfo(token)
ExtractClaims(p) ==
  /\ call[p].pc = "extract"
  /\ LET r == toLicenseInfo(call[p].token)
     IN  call' = [call EXCEPT ![p] =
                    [@ EXCEPT !.trace = Append(@, "extract"),
                              !.info = r.info,
                              !.err = r.err,
                              !.pc = IF r.err # Nil \/ call[p].op = "Verify"
                                       THEN "done" ELSE "match"]]
  /\ UNCHANGED lv

\* if licInfo.DeploymentID != depID { return errors.New(...) }; return nil
MatchDeployment(p) ==
  /\ call[p].pc = "match"
  /\ call' = [call EXCEPT ![p] =
                 [@ EXCEPT !.trace = Append(@, "match"),
                           !.err = IF DeploymentMismatch(call[p].info, call[p].depID)
                                     THEN ErrDeployment ELSE Nil,
                           !.pc = "done"]]
  /\ UNCHANGED lv

\* The call returns; the caller of NewLicenseVerifier keeps the verifier
\* it got and shares it.
Return(p) ==
  /\ call[p].pc = "done"
  /\ lv' = IF call[p].op = "NewLicenseVerifier" /\ call[p].err = Nil
             THEN call[p].lv ELSE lv
  /\ call' = [call EXCEPT ![p] = Idle]

Next ==
  \E p \in {1} :
    \/ CallNewLicenseVerifier(p, Blobs)
    \/ CallVerify(p, Inputs)
    \/ CallVerifyClusterLicense(p, Inputs)
    \/ LoadKey(p)
    \/ MakeKeySet(p)
    \/ ParseAndVerify(p)
    \/ ExtractClaims(p)
    \/ MatchDeployment(p)
    \/ Return(p)

Spec == Init /\ [][Next]_vars

NextShared ==
  \E p \in 1 .. NumCallers :
    \/ CallNewLicenseVerifier(p, SharedBlobs)
    \/ CallVerify(p, SharedInputs)
    \/ LoadKey(p)
    \/ MakeKeySet(p)
    \/ ParseAndVerify(p)
    \/ ExtractClaims(p)
    \/ Return(p)

SpecShared == InitShared /\ [][NextShared]_vars

(***************************************************************************)
(* Vocabulary of the properties.                                           *)
(***************************************************************************)
Calls == DOMAIN call
Ran(c, stage) == \E i \in DOMAIN c.trace : c.trace[i] = stage
IsDone(c) == c.pc = "done"
Verifying(c) == c.op \in {"Verify", "VerifyClusterLicense"}

\* The identity of the public key call p is to verify against: the shared
\* verifier's for Verify, the embedded key's for VerifyClusterLicense.
ExpectedKey(p) ==
  IF call[p].op = "Verify"
    THEN (IF Len(lv.keySet) = 1 THEN lv.keySet[1].id ELSE "")
    ELSE call[p].pemBytes.pkix.id

\* The license is a JWS signed with ES384 by the private half of the
\* expected key, and its signature bytes are as signed.
GenuineSignature(p) ==
  LET l == call[p].license
  IN  l.wellFormed /\ l.alg = ES384 /\ l.signer = ExpectedKey(p) /\ ~l.tampered

\* The caller's options leave the clock and the skew alone.
NoTimeOverride(c) ==
  \A i \in DOMAIN c.options : c.options[i].ident \notin {"WithClock", "WithAcceptableSkew"}

\* The license is in force at the clock the call validates against.
InForce(c) ==
  LET clock == LastOption(c.options, "WithClock", WithClock(c.now)).n
      skew == LastOption(c.options, "WithAcceptableSkew", WithAcceptableSkew(0)).n
  IN  /\ c.license.exp = 0 \/ clock < c.license.exp + skew
      /\ c.license.nbf = 0 \/ clock >= c.license.nbf - skew

AidOffends(cl) == cl[accountID].t # "float64" \/ cl[accountID].h < 0
OrgOffends(cl) == cl[organization].t # "string"
CapOffends(cl) == cl[capacity].t # "float64"
PlanOffends(cl) == cl[plan].t # "string"
RequiredClaimsValid(cl) ==
  ~AidOffends(cl) /\ ~OrgOffends(cl) /\ ~CapOffends(cl) /\ ~PlanOffends(cl)

\* Everything about the call's license is valid, the deployment id aside.
OtherwiseValid(p) ==
  GenuineSignature(p) /\ InForce(call[p]) /\ RequiredClaimsValid(call[p].license.claims)

VerificationError(e) == e.msg = MsgVerify
ClaimErrors == {ErrAccountID, ErrOrganization, ErrCapacity, ErrPlan}

(***************************************************************************)
(* C1: Verify reaches toLicenseInfo, and returns a LicenseInfo without an  *)
(* error, only for a token whose signature verifies against the verifier's *)
(* one ES384 key; a token with an altered signature, or signed by another  *)
(* key, fails with the verification error whatever its claims are.         *)
(***************************************************************************)
C1_SignatureGate ==
  \A p \in Calls :
    LET c == call[p]
    IN  Verifying(c) =>
          /\ Ran(c, "extract") => GenuineSignature(p)
          /\ IsDone(c) /\ c.err = Nil => GenuineSignature(p)
          /\ IsDone(c) /\ Ran(c, "parse") /\ ~GenuineSignature(p) =>
                VerificationError(c.err) /\ c.err \notin ClaimErrors /\ c.info = ZeroInfo

\* A token signed by another EC key and a tampered one, both rejected by
\* Verify although their claims are valid.
C1_Witness ==
  \E p \in Calls :
    LET c == call[p]
    IN  /\ c.op = "Verify" /\ IsDone(c)
        /\ c.license.wellFormed /\ c.license.alg = ES384
        /\ c.license.tampered \/ c.license.signer # ExpectedKey(p)
        /\ RequiredClaimsValid(c.license.claims)
        /\ VerificationError(c.err)

(***************************************************************************)
(* C2: for every well-formed (required claims present, of the right type,  *)
(* aid not negative), unexpired token signed with the matching key, Verify *)
(* succeeds and every field of the LicenseInfo equals the token's claim:   *)
(* Email = sub, Organization = org, AccountID = aid, DeploymentID = did,   *)
(* StorageCapacity = cap, Plan = plan, ExpiresAt = exp.                    *)
(***************************************************************************)
\* The number a float64 claim holds equals the integer n.
SameNumber(v, n) == v.h = 2 * n

C2_FieldsEqualClaims ==
  \A p \in Calls :
    LET c == call[p]
        cl == c.license.claims
    IN  c.op = "Verify" /\ IsDone(c) /\ c.options = << >> /\ OtherwiseValid(p)
        /\ cl[deploymentID].t # "float64" =>
          /\ c.err = Nil
          /\ c.info.Email = c.license.sub
          /\ c.info.Organization = cl[organization].s
          /\ SameNumber(cl[accountID], c.info.AccountID)
          /\ c.info.DeploymentID = cl[deploymentID].s
          /\ SameNumber(cl[capacity], c.info.StorageCapacity)
          /\ c.info.Plan = cl[plan].s
          /\ c.info.ExpiresAt = c.license.exp

(***************************************************************************)
(* C3: unless the caller's options move the clock or the skew, a correctly *)
(* signed token is rejected with the verification error when the current   *)
(* time is at or after its exp claim, and when it is before its nbf claim; *)
(* with no caller options no expired token yields a LicenseInfo.           *)
(***************************************************************************)
C3_TimeValidation ==
  \A p \in Calls :
    LET c == call[p]
        expired == c.license.exp # 0 /\ c.now >= c.license.exp
        early == c.license.nbf # 0 /\ c.now < c.license.nbf
    IN  Verifying(c) /\ Ran(c, "parse") /\ GenuineSignature(p) /\ NoTimeOverride(c)
        /\ (expired \/ early) =>
          /\ IsDone(c) /\ ~Ran(c, "extract")
          /\ VerificationError(c.err)
          /\ c.info = ZeroInfo

\* A correctly signed token with valid claims, checked with no options at
\* the very second it expires, is rejected for its exp claim.
C3_Witness ==
  \E p \in Calls :
    LET c == call[p]
    IN  /\ Verifying(c) /\ IsDone(c) /\ c.options = << >>
        /\ GenuineSignature(p) /\ RequiredClaimsValid(c.license.claims)
        /\ c.license.exp # 0 /\ c.now = c.license.exp
        /\ c.err = Wrap(MsgVerify, Err("exp not satisfied"))

(***************************************************************************)
(* C4: extraction is strict for each required custom claim, and checks     *)
(* them in the order aid, org, cap, plan: the error names aid when aid is  *)
(* absent, not a number or negative; else org when org is absent or not a  *)
(* string; else cap when cap is absent or not a number; else plan when     *)
(* plan is absent or not a string; and there is no error otherwise.        *)
(***************************************************************************)
C4_StrictExtraction ==
  \A p \in Calls :
    LET c == call[p]
        cl == c.license.claims
    IN  Verifying(c) /\ Ran(c, "extract") /\ c.pc # "match" /\ ~Ran(c, "match") =>
          /\ (c.err = ErrAccountID) <=> AidOffends(cl)
          /\ (c.err = ErrOrganization) <=> ~AidOffends(cl) /\ OrgOffends(cl)
          /\ (c.err = ErrCapacity) <=>
                ~AidOffends(cl) /\ ~OrgOffends(cl) /\ CapOffends(cl)
          /\ (c.err = ErrPlan) <=>
                ~AidOffends(cl) /\ ~OrgOffends(cl) /\ ~CapOffends(cl) /\ PlanOffends(cl)
          /\ (c.err = Nil) <=> RequiredClaimsValid(cl)

\* A negative aid together with a missing plan: the error names accountId.
C4_Witness ==
  \E p \in Calls :
    LET c == call[p]
    IN  /\ Ran(c, "extract")
        /\ c.license.claims[accountID] = Num(-1)
        /\ c.license.claims[plan] = Absent
        /\ c.err = ErrAccountID

(***************************************************************************)
(* C5: for an otherwise valid token without the did claim, Verify succeeds *)
(* with an empty DeploymentID, and VerifyClusterLicense against any        *)
(* non-empty expected deployment id fails with the mismatch error.         *)
(***************************************************************************)
C5_MissingDeploymentID ==
  \A p \in Calls :
    LET c == call[p]
    IN  IsDone(c) /\ OtherwiseValid(p) /\ c.license.claims[deploymentID] = Absent =>
          /\ c.op = "Verify" => c.err = Nil /\ c.info.DeploymentID = ""
          /\ c.op = "VerifyClusterLicense" /\ c.depID # "" => c.err = ErrDeployment

\* VerifyClusterLicense has rejected such a token for deployment "dep-123".
C5_Witness ==
  \E p \in Calls :
    LET c == call[p]
    IN  /\ c.op = "VerifyClusterLicense" /\ IsDone(c) /\ OtherwiseValid(p)
        /\ c.license.claims[deploymentID] = Absent
        /\ c.depID = "dep-123"
        /\ c.info.DeploymentID = ""
        /\ c.err = ErrDeployment

(***************************************************************************)
(* C6: VerifyClusterLicense returns no error if and only if constructing   *)
(* the verifier, verifying the token and extracting its claims all succeed *)
(* and the extracted DeploymentID is exactly the expected deployment id;   *)
(* when only the ids differ the error is the deployment mismatch.          *)
(***************************************************************************)
\* The deployment id the token carries, as the code reads it.
TokenDeploymentID(cl) ==
  IF cl[deploymentID].t = "string" THEN cl[deploymentID].s ELSE ""

C6_ExactDeploymentMatch ==
  \A p \in Calls :
    LET c == call[p]
        built == c.pemBytes.pem /\ c.pemBytes.pkix.family = "ecdsa"
        same == TokenDeploymentID(c.license.claims) = c.depID
    IN  c.op = "VerifyClusterLicense" /\ IsDone(c) =>
          /\ (c.err = Nil) <=> built /\ OtherwiseValid(p) /\ same
          /\ (c.err = Nil) <=>
                LET n == NewLicenseVerifier(c.pemBytes)
                    v == Verify(n.lv, c.license, c.options, c.now)
                IN  n.err = Nil /\ v.err = Nil /\ v.info.DeploymentID = c.depID
          /\ (c.err = ErrDeployment) <=> built /\ OtherwiseValid(p) /\ ~same

\* Token did "dep-123" against expected "dep-999", and against "DEP-123".
C6_Witness ==
  \E p \in Calls :
    LET c == call[p]
    IN  /\ c.op = "VerifyClusterLicense" /\ IsDone(c)
        /\ c.license.claims = AcmeClaims
        /\ c.depID \in {"dep-999", "DEP-123"}
        /\ c.info.DeploymentID = "dep-123"
        /\ c.err = ErrDeployment

(***************************************************************************)
(* C7: the key loader fails when the blob holds no PEM block; else it      *)
(* takes the payload as a PKIX public key and, only if that fails, as an   *)
(* X.509 certificate whose public key it takes; it returns the parse error *)
(* if both fail and the key-type error if the key parsed is not ECDSA.  A  *)
(* key is returned only when it is an ECDSA public key, and                *)
(* NewLicenseVerifier fails whenever the loader fails.                     *)
(***************************************************************************)
C7_KeyLoader ==
  \A p \in Calls :
    LET c == call[p]
        b == c.pemBytes
        parsed == IF b.pkix # NoKey THEN b.pkix ELSE b.cert
        loaded == c.pbKey # NoKey
    IN  Ran(c, "load") =>
          /\ ~b.pem => ~loaded /\ c.err = Wrap(MsgParseKey, ErrNotPEM)
          /\ b.pem /\ parsed = NoKey => ~loaded /\ c.err = Wrap(MsgParseKey, ErrX509Cert)
          /\ b.pem /\ parsed # NoKey /\ parsed.family # "ecdsa" =>
                ~loaded /\ c.err = Wrap(MsgParseKey, ErrNotECDSA)
          /\ b.pem /\ parsed.family = "ecdsa" => c.pbKey = parsed
          /\ loaded => c.pbKey.family = "ecdsa"
          /\ ~loaded => IsDone(c) /\ c.err # Nil /\ c.lv.isNil /\ ~Ran(c, "keyset")

\* NewLicenseVerifier has failed on a certificate that wraps an RSA key.
C7_Witness ==
  \E p \in Calls :
    LET c == call[p]
    IN  /\ c.op = "NewLicenseVerifier" /\ IsDone(c)
        /\ c.pemBytes.pem /\ c.pemBytes.pkix = NoKey /\ c.pemBytes.cert.family = "rsa"
        /\ c.err = Wrap(MsgParseKey, ErrNotECDSA)
        /\ lv.isNil

(***************************************************************************)
(* C8: the stages run in the one order load, keyset, parse, extract,       *)
(* match, each at most once; the first stage that fails ends the call and  *)
(* its error is the one returned; after an error nothing runs but the      *)
(* return; and whenever Verify or toLicenseInfo returns an error the        *)
(* LicenseInfo with it is the zero record.                                 *)
(***************************************************************************)
StagesOf(op) ==
  CASE op = "NewLicenseVerifier" -> << "load", "keyset" >>
    [] op = "Verify" -> << "parse", "extract" >>
    [] op = "VerifyClusterLicense" -> Stages
    [] OTHER -> << >>

\* The errors a stage returns.
IsErrorOf(stage, e) ==
  CASE stage = "load" -> e.msg = MsgParseKey
    [] stage = "keyset" -> e = ErrJWK
    [] stage = "parse" -> e.msg = MsgVerify
    [] stage = "extract" -> e \in ClaimErrors
    [] stage = "match" -> e = ErrDeployment

C8_Linear(c) ==
  /\ Len(c.trace) <= Len(StagesOf(c.op))
  /\ \A i \in DOMAIN c.trace : c.trace[i] = StagesOf(c.op)[i]
  /\ c.err # Nil =>
        /\ IsDone(c)
        /\ c.trace # << >>
        /\ IsErrorOf(c.trace[Len(c.trace)], c.err)
        \* licInfo is what Verify returned: zero unless Verify succeeded
        /\ c.trace[Len(c.trace)] # "match" => c.info = ZeroInfo
  /\ IsDone(c) /\ c.err = Nil => c.trace = StagesOf(c.op)

C8_FailFast ==
  /\ [](\A p \in Calls : C8_Linear(call[p]))
  /\ [][\A p \in Calls :
          call[p].err # Nil => call'[p] = call[p] \/ call'[p] = Idle]_vars

\* VerifyClusterLicense has stopped at the extraction stage on a bad plan.
C8_Witness ==
  \E p \in Calls :
    LET c == call[p]
    IN  /\ c.op = "VerifyClusterLicense" /\ IsDone(c)
        /\ c.trace = << "load", "keyset", "parse", "extract" >>
        /\ c.license.sub # "" /\ ~OrgOffends(c.license.claims)
        /\ c.err = ErrPlan
        /\ c.info = ZeroInfo

(***************************************************************************)
(* C9: from NewLicenseVerifier onward the shared verifier holds exactly    *)
(* one key, bound to ES384, no step of any Verify call changes it, and     *)
(* each of the concurrent Verify calls returns what it would return alone. *)
(***************************************************************************)
C9_Results ==
  /\ ~lv.isNil => Len(lv.keySet) = 1 /\ lv.keySet[1].alg = ES384
  /\ \A p \in Calls :
       LET c == call[p]
           alone == Verify(lv, c.license, c.options, c.now)
       IN  c.op = "Verify" /\ IsDone(c) => c.info = alone.info /\ c.err = alone.err

C9_Immutable ==
  /\ []C9_Results
  /\ [][~lv.isNil => lv' = lv]_vars

\* Two goroutines are inside Verify on the same verifier at once, one of
\* them finished, with different outcomes.
C9_Witness ==
  \E p, q \in Calls :
    /\ p # q /\ ~lv.isNil
    /\ call[p].op = "Verify" /\ call[p].pc = "extract"
    /\ call[q].op = "Verify" /\ IsDone(call[q]) /\ VerificationError(call[q].err)

=============================================================================
